---------------------------- MODULE Spec2Model ----------------------------
(***************************************************************************)
(* Model of src/app.py: the /ask and /clear_history handlers, get_answer    *)
(* with its response cache, the rule cascade that selects a provider, and   *)
(* the per-user history store.                                              *)
(*                                                                         *)
(* Text is modelled as a sequence of one-character strings, so that the     *)
(* string operations of the code (lower, strip, split, "in", startswith,    *)
(* replace) are computed as Python computes them.                           *)
(***************************************************************************)
EXTENDS Integers, Sequences, FiniteSets, TLC

(***************************************************************************)
(* Python string operations                                                 *)
(***************************************************************************)
UpperChars ==
    << "A","B","C","D","E","F","G","H","I","J","K","L","M",
       "N","O","P","Q","R","S","T","U","V","W","X","Y","Z" >>

LowerChars ==
    << "a","b","c","d","e","f","g","h","i","j","k","l","m",
       "n","o","p","q","r","s","t","u","v","w","x","y","z" >>

\* the characters str.strip() and str.split() treat as whitespace
WhiteSpace == {" ", "\t", "\n"}

SetMin(S) == CHOOSE x \in S : \A y \in S : x <= y

SetMax(S) == CHOOSE x \in S : \A y \in S : x >= y

LowerChar(c) ==
    IF \E i \in 1..Len(UpperChars) : UpperChars[i] = c
    THEN LowerChars[CHOOSE i \in 1..Len(UpperChars) : UpperChars[i] = c]
    ELSE c

\* s.lower()
lower(s) == [i \in 1..Len(s) |-> LowerChar(s[i])]

\* s.strip()
strip(s) ==
    LET keep == {i \in 1..Len(s) : s[i] \notin WhiteSpace}
    IN  IF keep = {} THEN <<>> ELSE SubSeq(s, SetMin(keep), SetMax(keep))

\* sub in s
contains(s, sub) ==
    \E i \in 0..(Len(s) - Len(sub)) : SubSeq(s, i + 1, i + Len(sub)) = sub

\* s.startswith(p)
startswith(s, p) == Len(p) <= Len(s) /\ SubSeq(s, 1, Len(p)) = p

\* any(k in s for k in keys), keys a sequence of texts
contains_any(s, keys) == \E k \in 1..Len(keys) : contains(s, keys[k])

\* s.startswith(tuple(keys))
startswith_any(s, keys) == \E k \in 1..Len(keys) : startswith(s, keys[k])

\* s.replace(old, new): leftmost non-overlapping occurrences, left to right
RECURSIVE replace(_, _, _)
replace(s, old, new) ==
    IF Len(s) < Len(old) \/ Len(old) = 0 THEN s
    ELSE IF SubSeq(s, 1, Len(old)) = old
         THEN new \o replace(SubSeq(s, Len(old) + 1, Len(s)), old, new)
         ELSE <<s[1]>> \o replace(Tail(s), old, new)

\* s.split(): the maximal runs of non-whitespace characters, in order
RECURSIVE split(_)
split(s) ==
    LET t == strip(s)
    IN  IF t = <<>> THEN <<>>
        ELSE LET ws  == {i \in 1..Len(t) : t[i] \in WhiteSpace}
                 cut == IF ws = {} THEN Len(t) + 1 ELSE SetMin(ws)
             IN  <<SubSeq(t, 1, cut - 1)>> \o split(SubSeq(t, cut, Len(t)))

\* s.split(maxsplit=1)[1], defined when s has at least two words
split_rest(s) ==
    LET t   == SubSeq(s, SetMin({i \in 1..Len(s) : s[i] \notin WhiteSpace}), Len(s))
        cut == SetMin({i \in 1..Len(t) : t[i] \in WhiteSpace})
        r   == SubSeq(t, cut, Len(t))
    IN  SubSeq(r, SetMin({i \in 1..Len(r) : r[i] \notin WhiteSpace}), Len(r))

\* re.sub(r'^(p1|p2|...)\s+', '', s): the first alternative that matches at
\* the start and is followed by whitespace is removed with that whitespace
RECURSIVE lstrip_ws(_)
lstrip_ws(s) ==
    IF s # <<>> /\ s[1] \in WhiteSpace THEN lstrip_ws(Tail(s)) ELSE s

sub_prefix(s, alts) ==
    LET hits == {k \in 1..Len(alts) :
                    /\ startswith(s, alts[k])
                    /\ Len(s) > Len(alts[k])
                    /\ s[Len(alts[k]) + 1] \in WhiteSpace}
    IN  IF hits = {} THEN s
        ELSE LET k == SetMin(hits)
             IN  lstrip_ws(SubSeq(s, Len(alts[k]) + 1, Len(s)))

\* set(s.lower().split())
word_set(s) == LET w == split(lower(s)) IN {w[i] : i \in 1..Len(w)}

(***************************************************************************)
(* The literal tables of get_short_answer and get_answer                    *)
(***************************************************************************)
\* get_short_answer: brief_indicators
brief_indicators ==
    << <<"b","r","i","e","f","l","y">>,  \* briefly
       <<"i","n"," ","b","r","i","e","f">>,  \* in brief
       <<"s","h","o","r","t">>,  \* short
       <<"i","n"," ","s","h","o","r","t">>,  \* in short
       <<"i","n"," ","3"," ","l","i","n","e","s">>,  \* in 3 lines
       <<"i","n"," ","3"," ","s","e","n","t","e","n","c","e","s">>,  \* in 3 sentences
       <<"s","u","m","m","a","r","i","z","e">> >>  \* summarize

\* get_short_answer: greetings (phrase, canned text)
greetings ==
    << << <<"h","i">>, "Hello! How can I help you today?" >>,
       << <<"h","e","l","l","o">>, "Hi there! What can I do for you?" >>,
       << <<"h","e","y">>, "Hey! How can I assist you?" >>,
       << <<"h","l","w">>, "Hello! How can I help you?" >>,
       << <<"h","l","o">>, "Hi! What can I do for you?" >>,
       << <<"h","i","i">>, "Hello! How can I help you today?" >>,
       << <<"h","i","i","i">>, "Hi there! What can I do for you?" >>,
       << <<"y","o">>, "Hey! How can I help?" >>,
       << <<"s","u","p">>, "Hey! What's up? How can I help?" >>,
       << <<"g","r","e","e","t","i","n","g","s">>, "Hello! How can I assist you today?" >> >>

\* get_short_answer: farewells (phrase, canned text)
farewells ==
    << << <<"b","y","e">>, "Goodbye! Have a great day!" >>,
       << <<"g","o","o","d","b","y","e">>, "Bye! Take care!" >>,
       << <<"s","e","e"," ","y","o","u">>, "See you later! Take care!" >>,
       << <<"c","y","a">>, "See you! Have a good one!" >>,
       << <<"g","o","o","d"," ","n","i","g","h","t">>, "Good night! Sleep well!" >>,
       << <<"g","n">>, "Good night! Sweet dreams!" >>,
       << <<"g","o","o","d"," ","m","o","r","n","i","n","g">>, "Good morning! Have a great day!" >>,
       << <<"g","m">>, "Good morning! How can I help you today?" >>,
       << <<"g","o","o","d"," ","a","f","t","e","r","n","o","o","n">>, "Good afternoon! How can I assist you?" >>,
       << <<"g","a">>, "Good afternoon! What can I do for you?" >> >>

\* get_short_answer: thanks (phrase, canned text)
thanks ==
    << << <<"t","h","a","n","k","s">>, "You're welcome!" >>,
       << <<"t","h","a","n","k"," ","y","o","u">>, "You're welcome!" >>,
       << <<"t","h","x">>, "You're welcome!" >>,
       << <<"t","y">>, "You're welcome!" >>,
       << <<"t","h","a","n","k">>, "You're welcome!" >>,
       << <<"a","p","p","r","e","c","i","a","t","e"," ","i","t">>, "You're welcome!" >>,
       << <<"t","h","a","n","k","s"," ","a"," ","l","o","t">>, "You're welcome! Happy to help!" >>,
       << <<"t","h","a","n","k"," ","y","o","u"," ","s","o"," ","m","u","c","h">>, "You're very welcome!" >>,
       << <<"t","h","n","x">>, "You're welcome!" >>,
       << <<"t","n","x">>, "You're welcome!" >> >>

\* get_short_answer: affirmations (phrase, canned text)
affirmations ==
    << << <<"o","k">>, "Alright!" >>,
       << <<"o","k","a","y">>, "Alright!" >>,
       << <<"s","u","r","e">>, "Great!" >>,
       << <<"y","e","s">>, "Perfect!" >>,
       << <<"y","e","a","h">>, "Great!" >>,
       << <<"y","e","p">>, "Alright!" >>,
       << <<"f","i","n","e">>, "Good!" >>,
       << <<"g","o","o","d">>, "Great!" >>,
       << <<"g","r","e","a","t">>, "Excellent!" >>,
       << <<"a","w","e","s","o","m","e">>, "Fantastic!" >> >>

\* get_short_answer: help_queries (phrase, canned text)
help_queries ==
    << << <<"h","e","l","p">>, "I can help you with information, calculations, weather, news, and more. What would you like to know?" >>,
       << <<"h","e","l","p"," ","m","e">>, "I'm here to help! What do you need?" >>,
       << <<"c","a","n"," ","y","o","u"," ","h","e","l","p">>, "Of course! What can I help you with?" >>,
       << <<"d","o"," ","y","o","u"," ","h","e","l","p">>, "Yes, I can help! What do you need?" >>,
       << <<"h","o","w"," ","d","o"," ","y","o","u"," ","w","o","r","k">>, "I can search information, calculate, check weather, get news, and more. What would you like to try?" >>,
       << <<"w","h","a","t"," ","c","a","n"," ","y","o","u"," ","d","o">>, "I can search information, calculate, check weather, get news, and more. What would you like to try?" >>,
       << <<"y","o","u","r"," ","c","a","p","a","b","i","l","i","t","i","e","s">>, "I can search information, calculate, check weather, get news, and more. What would you like to try?" >>,
       << <<"y","o","u","r"," ","f","e","a","t","u","r","e","s">>, "I can search information, calculate, check weather, get news, and more. What would you like to try?" >>,
       << <<"y","o","u","r"," ","f","u","n","c","t","i","o","n","s">>, "I can search information, calculate, check weather, get news, and more. What would you like to try?" >>,
       << <<"y","o","u","r"," ","a","b","i","l","i","t","i","e","s">>, "I can search information, calculate, check weather, get news, and more. What would you like to try?" >> >>

\* get_short_answer: leading words of a yes/no question
yesno_prefixes ==
    << <<"i","s"," ">>,  \* is 
       <<"a","r","e"," ">>,  \* are 
       <<"d","o"," ">>,  \* do 
       <<"d","o","e","s"," ">>,  \* does 
       <<"d","i","d"," ">>,  \* did 
       <<"c","a","n"," ">>,  \* can 
       <<"w","i","l","l"," ">>,  \* will 
       <<"s","h","o","u","l","d"," ">>,  \* should 
       <<"w","o","u","l","d"," ">>,  \* would 
       <<"c","o","u","l","d"," ">> >>  \* could 

\* get_answer: leading verbs of the math branch
math_verbs ==
    << <<"s","o","l","v","e">>,  \* solve
       <<"c","a","l","c","u","l","a","t","e">>,  \* calculate
       <<"c","o","m","p","u","t","e">> >>  \* compute

\* get_answer: arithmetic operators and symbols
math_ops ==
    << <<"+">>,  \* +
       <<"-">>,  \* -
       <<"*">>,  \* *
       <<"/">>,  \* /
       <<"=">>,  \* =
       <<"^">>,  \* ^
       <<"U+221A">>,  \* \u221a
       <<"s","q","u","a","r","e"," ","r","o","o","t">>,  \* square root
       <<"p","o","w","e","r">>,  \* power
       <<"e","x","p","o","n","e","n","t">> >>  \* exponent

\* get_answer: arithmetic vocabulary
math_words ==
    << <<"p","l","u","s">>,  \* plus
       <<"m","i","n","u","s">>,  \* minus
       <<"t","i","m","e","s">>,  \* times
       <<"d","i","v","i","d","e","d"," ","b","y">>,  \* divided by
       <<"m","u","l","t","i","p","l","y">>,  \* multiply
       <<"d","i","v","i","d","e">>,  \* divide
       <<"s","u","m">>,  \* sum
       <<"d","i","f","f","e","r","e","n","c","e">>,  \* difference
       <<"p","r","o","d","u","c","t">>,  \* product
       <<"q","u","o","t","i","e","n","t">> >>  \* quotient

\* get_answer: mathematical vocabulary
math_terms ==
    << <<"e","q","u","a","t","i","o","n">>,  \* equation
       <<"f","o","r","m","u","l","a">>,  \* formula
       <<"f","u","n","c","t","i","o","n">>,  \* function
       <<"d","e","r","i","v","a","t","i","v","e">>,  \* derivative
       <<"i","n","t","e","g","r","a","l">>,  \* integral
       <<"l","i","m","i","t">>,  \* limit
       <<"m","a","t","r","i","x">>,  \* matrix
       <<"v","e","c","t","o","r">>,  \* vector
       <<"p","r","o","b","a","b","i","l","i","t","y">>,  \* probability
       <<"s","t","a","t","i","s","t","i","c","s">> >>  \* statistics

\* get_answer: leading words of the dictionary branch
define_prefixes ==
    << <<"d","e","f","i","n","e">>,  \* define
       <<"m","e","a","n","i","n","g"," ","o","f">> >>  \* meaning of

\* get_answer: alternatives of the regex ^(define|what is|meaning of)\s+
define_strip ==
    << <<"d","e","f","i","n","e">>,  \* define
       <<"w","h","a","t"," ","i","s">>,  \* what is
       <<"m","e","a","n","i","n","g"," ","o","f">> >>  \* meaning of

\* get_answer: topic keywords of the encyclopedia branch
wiki_words ==
    << <<"h","i","s","t","o","r","y">>,  \* history
       <<"m","e","d","i","c","a","l">>,  \* medical
       <<"w","a","r">>,  \* war
       <<"d","i","s","e","a","s","e">>,  \* disease
       <<"p","r","e","s","i","d","e","n","t">>,  \* president
       <<"e","m","p","i","r","e">>,  \* empire
       <<"a","b","o","u","t">>,  \* about
       <<"b","o","r","n">>,  \* born
       <<"b","i","r","t","h">> >>  \* birth

kw_weather == <<"w","e","a","t","h","e","r">>

kw_news == <<"n","e","w","s">>

kw_time == <<"t","i","m","e">>

kw_date == <<"d","a","t","e">>

kw_dot == <<".">>

kw_qmark == <<"?">>

kw_current_events == <<"c","u","r","r","e","n","t"," ","e","v","e","n","t","s">>

(***************************************************************************)
(* Response texts.  A text the program builds is a record: kind tells how   *)
(* it came about, tag is the literal the code's template opens with, arg    *)
(* the text interpolated into it, inv the provider invocation (or clock     *)
(* reading) its content depends on, pre the history preamble prepended to   *)
(* it by get_answer.                                                        *)
(***************************************************************************)
Text(kind, tag, arg, inv, pre) ==
    [kind |-> kind, tag |-> tag, arg |-> arg, inv |-> inv, pre |-> pre]

\* Python's None
None == Text("none", "", <<>>, 0, <<>>)

\* the empty string
EmptyText == Text("empty", "", <<>>, 0, <<>>)

\* bool(text): None and "" are false
truthy(t) == t.kind \notin {"none", "empty"}

(***************************************************************************)
(* get_short_answer: what the function does for a query, before any call    *)
(* to the language model is made                                            *)
(***************************************************************************)
lookup(table, key) ==
    LET hits == {k \in 1..Len(table) : table[k][1] = key}
    IN  IF hits = {} THEN None
        ELSE Text("canned", table[SetMin(hits)][2], <<>>, 0, <<>>)

\* clean_query: every indicator removed in turn, stripping after each
RECURSIVE clean_from(_, _)
clean_from(s, k) ==
    IF k > Len(brief_indicators) THEN s
    ELSE clean_from(strip(replace(s, brief_indicators[k], <<>>)), k + 1)

clean_query(query) == clean_from(strip(lower(query)), 1)

\* get_short_answer without its time and date checks
short_kind_tables_only(query) ==
    LET query_lower == strip(lower(query))
    IN  IF \/ truthy(lookup(greetings, query_lower))
           \/ truthy(lookup(farewells, query_lower))
           \/ truthy(lookup(thanks, query_lower))
           \/ truthy(lookup(affirmations, query_lower))
           \/ truthy(lookup(help_queries, query_lower)) THEN "canned"
        ELSE IF startswith_any(query_lower, yesno_prefixes)
                /\ contains(query_lower, kw_qmark) THEN "yesno"
        ELSE IF contains_any(query_lower, brief_indicators) THEN "brief"
        ELSE "none"

\* the path get_short_answer takes.
\* "canned": a phrase of one of the five tables; "time"/"date": the clock is
\* formatted; "yesno"/"brief": the language model is asked; "none": the
\* function returns None and get_answer goes on to the rule cascade
short_kind(query) ==
    LET query_lower == strip(lower(query))
    IN  IF \/ truthy(lookup(greetings, query_lower))
           \/ truthy(lookup(farewells, query_lower))
           \/ truthy(lookup(thanks, query_lower))
           \/ truthy(lookup(affirmations, query_lower))
           \/ truthy(lookup(help_queries, query_lower)) THEN "canned"
        ELSE IF contains(query_lower, kw_time) THEN "time"
        ELSE IF contains(query_lower, kw_date) THEN "date"
        ELSE IF startswith_any(query_lower, yesno_prefixes)
                /\ contains(query_lower, kw_qmark) THEN "yesno"
        ELSE IF contains_any(query_lower, brief_indicators) THEN "brief"
        ELSE "none"

\* the text returned on the paths that ask no provider
canned_answer(query, now) ==
    LET query_lower == strip(lower(query))
    IN  IF truthy(lookup(greetings, query_lower)) THEN lookup(greetings, query_lower)
        ELSE IF truthy(lookup(farewells, query_lower)) THEN lookup(farewells, query_lower)
        ELSE IF truthy(lookup(thanks, query_lower)) THEN lookup(thanks, query_lower)
        ELSE IF truthy(lookup(affirmations, query_lower))
             THEN lookup(affirmations, query_lower)
        ELSE IF truthy(lookup(help_queries, query_lower))
             THEN lookup(help_queries, query_lower)
        ELSE IF contains(query_lower, kw_time) THEN Text("canned", "time", <<>>, now, <<>>)
        ELSE IF contains(query_lower, kw_date) THEN Text("canned", "date", <<>>, now, <<>>)
        ELSE None

(***************************************************************************)
(* get_answer: the rule cascade, first match wins                           *)
(***************************************************************************)
is_math(query_lower) ==
    \/ startswith_any(query_lower, math_verbs)
    \/ contains_any(query_lower, math_ops)
    \/ contains_any(query_lower, math_words)
    \/ contains_any(query_lower, math_terms)

\* the cascade with the weather rule tested before the math rule
route_weather_first(query) ==
    LET query_lower == strip(lower(query))
    IN  IF startswith(query_lower, kw_dot) THEN "gemini"
        ELSE IF contains(query_lower, kw_weather) THEN "weather"
        ELSE IF is_math(query_lower) THEN "wolfram"
        ELSE IF contains(query_lower, kw_news) THEN "news"
        ELSE IF startswith_any(query_lower, define_prefixes) THEN "dictionary"
        ELSE IF contains_any(query_lower, wiki_words) THEN "wikipedia"
        ELSE "duckduckgo"

\* the cascade without its last branch: the encyclopedia takes what is left
route_no_default(query) ==
    LET query_lower == strip(lower(query))
    IN  IF startswith(query_lower, kw_dot) THEN "gemini"
        ELSE IF is_math(query_lower) THEN "wolfram"
        ELSE IF contains(query_lower, kw_weather) THEN "weather"
        ELSE IF contains(query_lower, kw_news) THEN "news"
        ELSE IF startswith_any(query_lower, define_prefixes) THEN "dictionary"
        ELSE "wikipedia"

\* the cascade of get_answer
route(query) ==
    LET query_lower == strip(lower(query))
    IN  IF startswith(query_lower, kw_dot) THEN "gemini"
        ELSE IF is_math(query_lower) THEN "wolfram"
        ELSE IF contains(query_lower, kw_weather) THEN "weather"
        ELSE IF contains(query_lower, kw_news) THEN "news"
        ELSE IF startswith_any(query_lower, define_prefixes) THEN "dictionary"
        ELSE IF contains_any(query_lower, wiki_words) THEN "wikipedia"
        ELSE "duckduckgo"

\* the argument handed to the provider function of the route
route_arg(query) ==
    LET query_lower == strip(lower(query))
        r == route(query)
    IN  IF r = "gemini" THEN strip(Tail(query))
        ELSE IF r = "wolfram"
             THEN IF Len(split(query)) > 1 /\ startswith_any(query_lower, math_verbs)
                  THEN split_rest(query) ELSE query
        ELSE IF r = "news"
             THEN LET topic == strip(replace(query_lower, kw_news, <<>>))
                  IN  IF topic = <<>> THEN kw_current_events ELSE topic
        ELSE IF r = "dictionary" THEN sub_prefix(query_lower, define_strip)
        ELSE query

\* cache_key without the call of lower()
cache_key_cased(query) == strip(query)

\* cache_key = f"answer_{hash(query_lower)}"; equal texts hash equally and
\* the hash is taken to separate different texts
cache_key(query) == strip(lower(query))

(***************************************************************************)
(* Program constants and the bounds of the model                            *)
(***************************************************************************)
\* cache.set(cache_key, response, timeout=300)
CACHE_TIMEOUT == 300

\* add_to_search_history keeps the last 50 records
HISTORY_CAP == 50

\* add_to_gemini_history keeps the last 7 exchanges
GEMINI_CAP == 7

\* get_related_history returns related[-7:]
RELATED_LIMIT == 7

\* number of /ask requests of one behaviour
MaxReq == 2

\* the clock advances in steps of TickStep up to MaxClock
TickStep == 200

MaxClock == 400

Users == {"u1", "u2"}

Req == 1..MaxReq

(***************************************************************************)
(* The queries the requests are drawn from                                  *)
(***************************************************************************)
w_in == <<"i","n">>

w_paris == <<"p","a","r","i","s">>

w_sum == <<"2","+","2">>

w_calculate == <<"c","a","l","c","u","l","a","t","e">>

w_hi == <<"h","i">>

w_tell == <<".","t","e","l","l">>

w_is == <<"i","s">>

w_wet == <<"w","e","t","?">>

w_briefly == <<"b","r","i","e","f","l","y">>

w_define == <<"d","e","f","i","n","e">>

w_osmosis == <<"o","s","m","o","s","i","s">>

w_history == <<"h","i","s","t","o","r","y">>

w_Weather == <<"W","e","a","t","h","e","r">>

w_Paris == <<"P","A","R","I","S">>

Sp == <<" ">>

\* the words joined by sep
RECURSIVE join(_, _)
join(ws, sep) ==
    IF ws = <<>> THEN <<>>
    ELSE IF Len(ws) = 1 THEN ws[1]
    ELSE ws[1] \o sep \o join(Tail(ws), sep)

Q_weather == join(<<kw_weather, w_in, w_paris>>, Sp)

Q_weather_case == join(<<w_Weather, w_in, w_Paris>>, Sp)

Q_weather_pad == Sp \o Q_weather \o Sp

Q_weather_wide == join(<<kw_weather, w_in, w_paris>>, Sp \o Sp)

Q_math == join(<<w_calculate, w_sum>>, Sp)

Q_weather_math == join(<<kw_weather, w_sum>>, Sp)

Q_hi == w_hi

Q_time == kw_time

Q_ai == join(<<w_tell, w_paris>>, Sp)

Q_yesno == join(<<w_is, w_paris, w_wet>>, Sp)

Q_brief == join(<<w_paris, w_briefly>>, Sp)

Q_news == join(<<kw_news, w_paris>>, Sp)

Q_define == join(<<w_define, w_osmosis>>, Sp)

Q_wiki == join(<<w_history, w_paris>>, Sp)

Q_web == w_paris

Q_blank == Sp \o Sp \o Sp

Queries ==
    { Q_weather, Q_weather_case, Q_weather_pad, Q_weather_wide, Q_math,
      Q_weather_math, Q_hi, Q_time, Q_ai, Q_yesno, Q_brief, Q_news, Q_define,
      Q_wiki, Q_web, Q_blank }

\* one- and two-word queries over a vocabulary that touches every rule
Vocabulary ==
    { kw_weather, w_in, w_paris, w_sum, w_calculate, w_hi, w_tell, w_is, w_wet,
      w_briefly, kw_news, w_define, w_history, kw_time }

WideQueries ==
    Vocabulary \cup {join(<<a, b>>, Sp) : a \in Vocabulary, b \in Vocabulary}

\* the texts get_answer can be called with: ask strips the query first
QueryTexts == {strip(t) : t \in Queries \cup WideQueries}

\* what get_answer derives from the query alone, tabulated per query
Facts ==
    [t \in QueryTexts |->
        [key |-> cache_key(t), kind |-> short_kind(t), route |-> route(t),
         arg |-> route_arg(t)]]

\* the texts whose words get_related_history compares: the queries and the
\* arguments recorded in the history
Words == [t \in QueryTexts \cup {Facts[q].arg : q \in QueryTexts} |-> word_set(t)]

(***************************************************************************)
(* State                                                                    *)
(***************************************************************************)
VARIABLES
    clock,          \* the wall clock, in seconds
    cache,          \* the flask_caching store behind get_answer: key -> entry
    memo,           \* the store behind @cache.memoize of cached_search
    user_history,   \* user_history[u] = [search_history, gemini_history]
    req,            \* the /ask requests: where each one is and what it saw
    invocations,    \* number of provider calls started so far
    log,            \* per user, every record appended since the last clear
    thread          \* the calls of the add_to_..._history functions under way

vars == <<clock, cache, memo, user_history, req, invocations, log, thread>>

EmptyMap == [k \in {} |-> None]

\* cache.get(key) without the test of the expiry time
cache_get_forever(c, key, now) ==
    IF key \in DOMAIN c THEN c[key].value ELSE None

\* cache.get(key): the stored value while its timeout has not passed
cache_get(c, key, now) ==
    IF key \in DOMAIN c /\ c[key].expires > now THEN c[key].value ELSE None

\* cache.set(key, value, timeout=300)
cache_set(c, key, value, now) ==
    [k \in DOMAIN c \cup {key} |->
        IF k = key THEN [value |-> value, expires |-> now + CACHE_TIMEOUT]
        ELSE c[k]]


(***************************************************************************)
(* History store                                                            *)
(***************************************************************************)
last(s, n) == IF Len(s) > n THEN SubSeq(s, Len(s) - n + 1, Len(s)) ELSE s

\* get_user_history creates this for a user it has not seen
NoHistory == [search_history |-> <<>>, gemini_history |-> <<>>]

\* add_to_search_history keeping the first HISTORY_CAP records
add_to_search_history_oldest(h, query, response, source, now) ==
    [h EXCEPT !.search_history =
        LET s == Append(@, [query |-> query, response |-> response,
                            source |-> source, timestamp |-> now])
        IN  IF Len(s) > HISTORY_CAP THEN SubSeq(s, 1, HISTORY_CAP) ELSE s]

\* user_history[user_id]["search_history"] with the record appended and cut
\* to its last HISTORY_CAP records
add_to_search_history(h, query, response, source, now) ==
    [h EXCEPT !.search_history =
        last(Append(@, [query |-> query, response |-> response,
                        source |-> source, timestamp |-> now]), HISTORY_CAP)]

\* response.replace("<NAF AI Response header>", "")
strip_header(response) == [response EXCEPT !.tag = ""]

\* add_to_gemini_history without the cut
add_to_gemini_history_uncapped(h, query, response) ==
    [h EXCEPT !.gemini_history =
        Append(@, [user |-> query, assistant |-> strip_header(response)])]

\* user_history[user_id]["gemini_history"] with the turn appended and cut to
\* its last GEMINI_CAP turns
add_to_gemini_history(h, query, response) ==
    [h EXCEPT !.gemini_history =
        last(Append(@, [user |-> query, assistant |-> strip_header(response)]),
             GEMINI_CAP)]

\* the keyword test answering yes for every entry
is_related_any(query, entry) == TRUE

\* get_related_history: query_words.intersection(hist_words) is not empty
is_related(query, entry) == Words[query] \cap Words[entry.query] # {}

\* get_related_history returning related[:7]
get_related_history_first(h, query) ==
    LET related == SelectSeq(h.search_history, LAMBDA e : is_related(query, e))
    IN  IF Len(related) > RELATED_LIMIT THEN SubSeq(related, 1, RELATED_LIMIT)
        ELSE related

\* get_related_history: related[-7:]
get_related_history(h, query) ==
    LET related == SelectSeq(h.search_history, LAMBDA e : is_related(query, e))
    IN  last(related, RELATED_LIMIT)

\* the texts taken to run over 600 characters: the listings of get_news and
\* get_definition; the other texts stay under it
long_text(text) == text.kind = "ok" /\ text.tag \in {"Latest News", "Definitions of"}

\* summarize_response: a text of at most max_length characters is returned
\* as it is, a longer one is cut to its leading sentences, "..." appended
summarize_response(text) ==
    IF long_text(text) THEN [text EXCEPT !.kind = "preview"] ELSE text

\* the items of history_prompt, one per related record
history_items(related) ==
    [k \in 1..Len(related) |->
        [query |-> related[k].query,
         response |-> summarize_response(related[k].response)]]

(***************************************************************************)
(* Provider functions.  The outcome of the remote call is "ok", "status"    *)
(* (an error status or an empty result) or "raise" (an exception, a         *)
(* timeout included).                                                       *)
(***************************************************************************)
Outcomes == {"ok", "status", "raise"}

Routes ==
    {"gemini", "wolfram", "weather", "news", "dictionary", "wikipedia", "duckduckgo"}

\* query_gemini with its use_history flag ignored
gemini_context_always(h, use_history) == h.gemini_history

\* query_gemini: the conversation turns put before the prompt as context
gemini_context(h, use_history) ==
    IF use_history THEN h.gemini_history ELSE <<>>

\* the context of the language-model call a provider function makes:
\* query_gemini is called with use_history=True for the "." route and, by
\* generate_summary, with use_history=False inside search_wikipedia
route_context(h, rt) ==
    IF rt \in {"gemini", "wikipedia"} THEN gemini_context(h, rt = "gemini") ELSE <<>>

\* the literal each provider function's return value opens with
provider_tag(rt, out) ==
    IF rt = "gemini"
    THEN IF out = "ok" THEN "NAF AI Response:"
         ELSE IF out = "status" THEN "NAF couldn't generate a response."
         ELSE "NAF error:"
    ELSE IF rt = "wolfram"
    THEN IF out = "ok" THEN "NAF Answer:"
         ELSE IF out = "status" THEN "NAF couldn't solve this."
         ELSE "NAF Math error:"
    ELSE IF rt = "weather"
    THEN IF out = "ok" THEN "Weather in"
         ELSE IF out = "status" THEN "Couldn't retrieve weather for"
         ELSE "Weather error:"
    ELSE IF rt = "news"
    THEN IF out = "ok" THEN "Latest News"
         ELSE IF out = "status" THEN "No news articles found."
         ELSE "News error:"
    ELSE IF rt = "dictionary"
    THEN IF out = "ok" THEN "Definitions of"
         ELSE IF out = "status" THEN "Dictionary API error:"
         ELSE "Dictionary error:"
    ELSE IF rt = "wikipedia"
    THEN IF out = "ok" THEN "NAF:"
         ELSE IF out = "status" THEN "Nothing found for this topic."
         ELSE "NAF error:"
    ELSE IF out = "ok" THEN "Search Results for"
         ELSE IF out = "status" THEN "No search results found for your query."
         ELSE "Search error:"

\* the value the provider function returns
provider_text(rt, out, arg, inv) == Text(out, provider_tag(rt, out), arg, inv, <<>>)

\* whether the provider function records the call in the search history:
\* query_wolfram does whenever no exception was raised, get_weather, get_news
\* and get_definition on success; cached_search passes no user_id
records_search(rt, out) ==
    \/ rt = "wolfram" /\ out \in {"ok", "status"}
    \/ rt \in {"weather", "news", "dictionary"} /\ out = "ok"

\* the source tag of the record
source_of(rt) == rt

\* the user's history after the provider function has returned
provider_history(h, rt, out, arg, result, now) ==
    IF rt = "gemini" /\ out = "ok" THEN add_to_gemini_history(h, arg, result)
    ELSE IF records_search(rt, out)
         THEN add_to_search_history(h, arg, result, source_of(rt), now)
    ELSE h

\* the records appended so far, had none been evicted
log_after(l, rt, out, arg, result, now) ==
    IF rt = "gemini" /\ out = "ok"
    THEN [l EXCEPT !.gemini_history =
            Append(@, [user |-> arg, assistant |-> strip_header(result)])]
    ELSE IF records_search(rt, out)
         THEN [l EXCEPT !.search_history =
                 Append(@, [query |-> arg, response |-> result,
                            source |-> source_of(rt), timestamp |-> now])]
    ELSE l

\* response = history_prompt + response on every route
with_preamble_always(result, pre, rt) ==
    IF pre # <<>> THEN [result EXCEPT !.pre = pre] ELSE result

\* response = history_prompt + response, unless the query starts with "."
with_preamble(result, pre, rt) ==
    IF pre # <<>> /\ rt # "gemini" THEN [result EXCEPT !.pre = pre] ELSE result

(***************************************************************************)
(* The /ask handler and get_answer.  A request runs without interruption    *)
(* until it waits for a provider; the steps are Begin (ask, the cache       *)
(* lookup, get_short_answer up to its call of the language model, the       *)
(* history lookup and the choice of the provider), ShortReturn (the         *)
(* language model answers get_short_answer) and ProviderReturn (the         *)
(* provider function returns, the response is assembled and stored).        *)
(***************************************************************************)
IdleReq ==
    [pc |-> "idle", user |-> "", body |-> "", text |-> <<>>, query |-> <<>>,
     status |-> 0,
     route |-> "", resp |-> None, hit |-> FALSE, calls |-> 0, inv |-> 0,
     pre |-> <<>>, context |-> <<>>,
     after |-> {}, began |-> 0, ended |-> 0, outcome |-> ""]

\* the requests that have returned
Done == {j \in Req : req[j].pc = "done"}

\* the handler returns: status 200 with the answer, or 400 / 500 with an error
finish(r, status, resp, now) ==
    [r EXCEPT !.pc = "done", !.status = status, !.resp = resp, !.ended = now]

\* get_answer from "Check related history" on: the related records are read
\* and the provider function of the route is called; cached_search answers
\* from its own store when it holds the (query, source) pair
StartRoute(i, r) ==
    LET rt   == Facts[r.query].route
        pre  == history_items(get_related_history(user_history[r.user], r.query))
        held == IF rt \in {"wikipedia", "duckduckgo"}
                THEN cache_get(memo, <<r.query, rt>>, clock) ELSE None
    IN  IF truthy(held)
        THEN LET response == with_preamble(held, pre, rt)
             IN  /\ cache' = cache_set(cache, Facts[r.query].key, response, clock)
                 /\ req' = [req EXCEPT ![i] =
                              finish([r EXCEPT !.pre = pre, !.route = rt], 200,
                                     response, clock)]
                 /\ UNCHANGED invocations
        ELSE /\ invocations' = invocations + 1
             /\ req' = [req EXCEPT ![i] =
                          [r EXCEPT !.pc = "provider", !.pre = pre, !.route = rt,
                                    !.calls = @ + 1, !.inv = invocations + 1,
                                    !.context =
                                        route_context(user_history[r.user], rt)]]
             /\ UNCHANGED cache

\* ask without its check of the stripped query
ask_status_unchecked(body, text) ==
    IF body = "nodata" THEN 400
    ELSE IF body = "nonstring" THEN 500
    ELSE 200

\* ask before it calls get_answer: the status of the error response, or 200
\* when the request goes on to get_answer
ask_status(body, text) ==
    IF body = "nodata" THEN 400
    ELSE IF body = "nonstring" THEN 500
    ELSE IF strip(text) = <<>> THEN 400
    ELSE 200

\* the "error" member of that response
ask_error(body, text) ==
    IF body = "nodata" THEN Text("error", "Invalid request data", <<>>, 0, <<>>)
    ELSE IF body = "nonstring" THEN Text("error", "An error occurred:", <<>>, 0, <<>>)
    ELSE Text("error", "Query cannot be empty", <<>>, 0, <<>>)

\* a request arrives: body is what request.get_json() yields, text its query
Begin(i, u, body, text) ==
    /\ req[i].pc = "idle"
    /\ \A j \in Req : j < i => req[j].pc # "idle"
    /\ LET query == strip(text)
           r0    == [IdleReq EXCEPT !.user = u, !.body = body, !.text = text,
                                    !.query = query, !.after = Done,
                                    !.began = clock]
       IN  IF ask_status(body, text) # 200
           THEN /\ req' = [req EXCEPT ![i] =
                             finish(r0, ask_status(body, text),
                                    ask_error(body, text), clock)]
                /\ UNCHANGED <<cache, invocations>>
           ELSE IF strip(lower(query)) = <<>>
           THEN /\ req' = [req EXCEPT ![i] =
                             finish(r0, 200, Text("plain", "Please enter a valid query.",
                                                  <<>>, 0, <<>>), clock)]
                /\ UNCHANGED <<cache, invocations>>
           ELSE IF truthy(cache_get(cache, Facts[query].key, clock))
           THEN /\ req' = [req EXCEPT ![i] =
                             finish([r0 EXCEPT !.hit = TRUE], 200,
                                    cache_get(cache, Facts[query].key, clock), clock)]
                /\ UNCHANGED <<cache, invocations>>
           ELSE IF Facts[query].kind \in {"canned", "time", "date"}
           THEN /\ req' = [req EXCEPT ![i] =
                             finish(r0, 200, canned_answer(query, clock), clock)]
                /\ UNCHANGED <<cache, invocations>>
           ELSE IF Facts[query].kind \in {"yesno", "brief"}
           THEN /\ invocations' = invocations + 1
                /\ req' = [req EXCEPT ![i] =
                             [r0 EXCEPT !.pc = "short", !.calls = 1,
                                        !.inv = invocations + 1,
                                        !.context =
                                            gemini_context(user_history[u], FALSE)]]
                /\ UNCHANGED cache
           ELSE StartRoute(i, r0)
    /\ UNCHANGED <<clock, memo, user_history, log, thread>>

\* what the language model's reply makes of get_short_answer: "ok" an
\* answer, "status" and "raise" the error text of query_gemini, used as the
\* answer, "empty" a reply that leaves nothing after stripping
ShortOutcomes == Outcomes \cup {"empty"}

short_text(r, out) ==
    IF out = "empty" THEN EmptyText
    ELSE Text("short", IF out = "ok" THEN "" ELSE provider_tag("gemini", out),
              r.query, r.inv, <<>>)

\* query_gemini(prompt, use_history=False) returns inside get_short_answer;
\* a non-empty short answer is returned as it is, an empty one sends
\* get_answer on to the rule cascade
ShortReturn(i, out) ==
    /\ req[i].pc = "short"
    /\ LET r == [req[i] EXCEPT !.outcome = out]
       IN  IF truthy(short_text(r, out))
           THEN /\ req' = [req EXCEPT ![i] = finish(r, 200, short_text(r, out), clock)]
                /\ UNCHANGED <<cache, invocations>>
           ELSE StartRoute(i, r)
    /\ UNCHANGED <<clock, memo, user_history, log, thread>>

\* the provider function of the route returns; get_answer prepends the
\* history preamble, stores the response and returns it
ProviderReturn(i, out) ==
    /\ req[i].pc = "provider"
    /\ LET r        == req[i]
           rt       == r.route
           arg      == Facts[r.query].arg
           result   == provider_text(rt, out, arg, r.inv)
           response == with_preamble(result, r.pre, rt)
       IN  /\ user_history' =
                [user_history EXCEPT ![r.user] =
                    provider_history(@, rt, out, arg, result, clock)]
           /\ log' = [log EXCEPT ![r.user] =
                        log_after(@, rt, out, arg, result, clock)]
           /\ memo' = IF rt \in {"wikipedia", "duckduckgo"}
                      THEN cache_set(memo, <<r.query, rt>>, result, clock)
                      ELSE memo
           /\ cache' = cache_set(cache, Facts[r.query].key, response, clock)
           /\ req' = [req EXCEPT ![i] =
                        finish([r EXCEPT !.outcome = out], 200, response, clock)]
    /\ UNCHANGED <<clock, invocations, thread>>

(***************************************************************************)
(* The history functions step by step.  A call of add_to_search_history or  *)
(* add_to_gemini_history fetches the user's dict (got), appends its record   *)
(* to the list (appended), and, finding the list over its cap, takes the     *)
(* slice of the last records (sliced) and stores it back.  Calls of several  *)
(* requests take these steps in any order: nothing in the code holds a lock. *)
(* /clear_history puts a new dict in the user's place; a call that fetched   *)
(* the old one goes on working on that one (held = FALSE).                   *)
(***************************************************************************)
MaxThreads == 2

Thr == 1..MaxThreads

IdleThread ==
    [pc |-> "idle", user |-> "", list |-> "", held |-> FALSE, slice |-> <<>>]

\* the calls under way after user u got a new dict
orphaned(u) ==
    [t \in Thr |-> IF thread[t].pc # "idle" /\ thread[t].user = u
                   THEN [thread[t] EXCEPT !.held = FALSE] ELSE thread[t]]

\* the cap of the list and the number of appends of one behaviour
list_cap(list) == IF list = "search_history" THEN HISTORY_CAP ELSE GEMINI_CAP

\* history = get_user_history(user_id)
HistoryGet(t, u, list) ==
    /\ thread[t].pc = "idle"
    /\ thread' = [thread EXCEPT ![t] =
                    [pc |-> "got", user |-> u, list |-> list, held |-> TRUE,
                     slice |-> <<>>]]
    /\ UNCHANGED <<clock, cache, memo, user_history, req, invocations, log>>

\* history[list].append(record)
HistoryAppend(t) ==
    /\ thread[t].pc = "got"
    /\ LET u      == thread[t].user
           list   == thread[t].list
           rt     == IF list = "search_history" THEN "weather" ELSE "gemini"
           arg    == IF list = "search_history" THEN Q_weather ELSE Facts[Q_ai].arg
           result == provider_text(rt, "ok", arg, Len(log[u][list]) + 1)
           after  == log_after(log[u], rt, "ok", arg, result, clock)
           record == after[list][Len(after[list])]
       IN  /\ log' = [log EXCEPT ![u] = after]
           /\ user_history' =
                IF thread[t].held
                THEN [user_history EXCEPT ![u][list] = Append(@, record)]
                ELSE user_history
    /\ thread' = [thread EXCEPT ![t].pc = "appended"]
    /\ UNCHANGED <<clock, cache, memo, req, invocations>>

\* if len(history[list]) > cap: ... history[list][-cap:]
HistorySlice(t) ==
    /\ thread[t].pc = "appended"
    /\ LET u    == thread[t].user
           list == thread[t].list
       IN  thread' =
             IF thread[t].held /\ Len(user_history[u][list]) > list_cap(list)
             THEN [thread EXCEPT ![t].pc = "sliced",
                                 ![t].slice = last(user_history[u][list],
                                                   list_cap(list))]
             ELSE [thread EXCEPT ![t] = IdleThread]
    /\ UNCHANGED <<clock, cache, memo, user_history, req, invocations, log>>

\* history[list] = the slice
HistoryStore(t) ==
    /\ thread[t].pc = "sliced"
    /\ user_history' =
         IF thread[t].held
         THEN [user_history EXCEPT ![thread[t].user][thread[t].list] =
                                       thread[t].slice]
         ELSE user_history
    /\ thread' = [thread EXCEPT ![t] = IdleThread]
    /\ UNCHANGED <<clock, cache, memo, req, invocations, log>>

\* a /clear_history that resets the search history alone
clear_history_search_only(u) ==
    /\ user_history' = [user_history EXCEPT ![u].search_history = <<>>]
    /\ log' = [log EXCEPT ![u] = NoHistory]
    /\ thread' = orphaned(u)
    /\ UNCHANGED <<clock, cache, memo, req, invocations>>

\* the /clear_history handler
clear_history(u) ==
    /\ user_history' = [user_history EXCEPT ![u] = NoHistory]
    /\ log' = [log EXCEPT ![u] = NoHistory]
    /\ thread' = orphaned(u)
    /\ UNCHANGED <<clock, cache, memo, req, invocations>>

\* time passes
Tick ==
    /\ clock + TickStep <= MaxClock
    /\ clock' = clock + TickStep
    /\ UNCHANGED <<cache, memo, user_history, req, invocations, log, thread>>

Bodies == {"json", "nodata", "nonstring"}

Init ==
    /\ clock = 0
    /\ cache = EmptyMap
    /\ memo = EmptyMap
    /\ user_history = [u \in Users |-> NoHistory]
    /\ req = [i \in Req |-> IdleReq]
    /\ invocations = 0
    /\ log = [u \in Users |-> NoHistory]
    /\ thread = [t \in Thr |-> IdleThread]

\* requests with a query of the set Q
Arrive(Q) == \E i \in Req, u \in Users, text \in Q : Begin(i, u, "json", text)

\* requests whose body is no JSON object or whose query is no string
ArriveMalformed ==
    \E i \in Req, u \in Users, body \in Bodies \ {"json"} : Begin(i, u, body, <<>>)

ShortReply == \E i \in Req, out \in ShortOutcomes : ShortReturn(i, out)

ProviderReply == \E i \in Req, out \in Outcomes : ProviderReturn(i, out)

Clear == \E u \in Users : clear_history(u)

Next == Arrive(Queries) \/ ArriveMalformed \/ ShortReply \/ ProviderReply \/ Clear \/ Tick

Spec == Init /\ [][Next]_vars

\* the cache and the short-circuit answers: the four spellings of one
\* weather query, two canned phrases and a blank query
CoreQueries ==
    {Q_weather, Q_weather_case, Q_weather_pad, Q_weather_wide, Q_hi, Q_time, Q_blank}

NextCore == Arrive(CoreQueries) \/ ProviderReply \/ Tick

SpecCore == Init /\ [][NextCore]_vars

\* the history store behind the handlers: requests that record to either
\* list, and /clear_history
StoreQueries == {Q_weather, Q_weather_math, Q_ai, Q_define}

NextStore == Arrive(StoreQueries) \/ ProviderReply \/ Clear

SpecStore == Init /\ [][NextStore]_vars

\* the history store alone: add_to_search_history is applied to a user's
\* history, as the provider functions do, with the n-th record of a user
\* carrying the number n, and /clear_history is served
MaxAppends == 52

Record(u) ==
    /\ Len(log[u].search_history) < MaxAppends
    /\ LET n      == Len(log[u].search_history) + 1
           result == provider_text("weather", "ok", Q_weather, n)
       IN  /\ user_history' =
                [user_history EXCEPT ![u] =
                    add_to_search_history(@, Q_weather, result, "weather", clock)]
           /\ log' = [log EXCEPT ![u] = log_after(@, "weather", "ok", Q_weather,
                                                   result, clock)]
    /\ UNCHANGED <<clock, cache, memo, req, invocations, thread>>

NextHist == (\E u \in Users : Record(u)) \/ Clear

SpecHist == Init /\ [][NextHist]_vars

\* the related-history lookup: requests that record a search are served one
\* after the other, each at once and with success, MaxRecords of them
MaxRecords == 8

RelatedQueries == {Q_weather, Q_weather_math, Q_define}

RECURSIVE Recorded(_)
Recorded(U) ==
    IF U = {} THEN 0
    ELSE LET u == CHOOSE x \in U : TRUE
         IN  Len(log[u].search_history) + Recorded(U \ {u})

Serve(u, q) ==
    /\ Recorded(Users) < MaxRecords
    /\ LET rt     == Facts[q].route
           arg    == Facts[q].arg
           result == provider_text(rt, "ok", arg, Len(log[u].search_history) + 1)
       IN  /\ user_history' =
                [user_history EXCEPT ![u] =
                    provider_history(@, rt, "ok", arg, result, clock)]
           /\ log' = [log EXCEPT ![u] = log_after(@, rt, "ok", arg, result, clock)]
    /\ UNCHANGED <<clock, cache, memo, req, invocations, thread>>

NextRelated == \E u \in Users, q \in RelatedQueries : Serve(u, q)

SpecRelated == Init /\ [][NextRelated]_vars

\* the expiry of cache entries: a weather query in two spellings and an
\* encyclopedia query, which goes through cached_search, while time passes
ExpiryQueries == {Q_weather, Q_weather_case, Q_wiki}

NextExpiry == Arrive(ExpiryQueries) \/ ProviderReply \/ Tick

SpecExpiry == Init /\ [][NextExpiry]_vars

\* the conversation turns: assistant requests next to requests that call the
\* language model on the side, for a yes/no question, a brief answer or the
\* summary of an encyclopedia page, and a request that calls no model
TurnQueries == {Q_ai, Q_yesno, Q_brief, Q_wiki, Q_weather}

NextTurns == Arrive(TurnQueries) \/ ShortReply \/ ProviderReply

SpecTurns == Init /\ [][NextTurns]_vars

\* the conversation-turn log alone: add_to_gemini_history is applied to a
\* user's history, as query_gemini does for the "." route, with the n-th
\* turn of a user carrying the number n, and /clear_history is served
MaxTurns == 10

Converse(u) ==
    /\ Len(log[u].gemini_history) < MaxTurns
    /\ LET n      == Len(log[u].gemini_history) + 1
           prompt == Facts[Q_ai].arg
           result == provider_text("gemini", "ok", prompt, n)
       IN  /\ user_history' =
                [user_history EXCEPT ![u] = add_to_gemini_history(@, prompt, result)]
           /\ log' = [log EXCEPT ![u] = log_after(@, "gemini", "ok", prompt,
                                                   result, clock)]
    /\ UNCHANGED <<clock, cache, memo, req, invocations, thread>>

NextGemini == (\E u \in Users : Converse(u)) \/ Clear

SpecGemini == Init /\ [][NextGemini]_vars

\* the history preamble: a request that records a search, and requests with
\* a related query on the math route, the assistant route and the yes/no
\* path, and one with an unrelated query
PreambleQueries == {Q_weather, Q_weather_math, Q_ai, Q_yesno, Q_define}

NextPreamble == Arrive(PreambleQueries) \/ ShortReply \/ ProviderReply

SpecPreamble == Init /\ [][NextPreamble]_vars

\* the history functions of concurrent requests of one user: calls that
\* append to the conversation turns or to the search history, step by step,
\* and /clear_history; MaxTurns turns and MaxRaced searches
MaxRaced == 2

RaceUser == "u1"

Call ==
    \E t \in Thr :
        \/ Len(log[RaceUser].gemini_history) < MaxTurns
           /\ HistoryGet(t, RaceUser, "gemini_history")
        \/ Len(log[RaceUser].search_history) < MaxRaced
           /\ HistoryGet(t, RaceUser, "search_history")

NextRace ==
    \/ Call
    \/ \E t \in Thr : HistoryAppend(t) \/ HistorySlice(t) \/ HistoryStore(t)
    \/ Clear

SpecRace == Init /\ [][NextRace]_vars

\* the cache between users: each user may have one earlier weather search on
\* record, and the users ask a math query that mentions the weather, or for
\* a definition
SharedQueries == {Q_weather_math, Q_define}

Earlier == \E u \in Users : log[u] = NoHistory /\ Record(u)

NextShared == Earlier \/ Arrive(SharedQueries) \/ ProviderReply

SpecShared == Init /\ [][NextShared]_vars

\* the rule cascade alone: one request, its query drawn from WideQueries
NextRoute ==
    \/ \E u \in Users, text \in WideQueries : Begin(1, u, "json", text)
    \/ ShortReply
    \/ ProviderReply

SpecRoute == Init /\ [][NextRoute]_vars

(***************************************************************************)
(* Properties                                                               *)
(***************************************************************************)
\* a canned conversational phrase: a phrase of the greeting, farewell,
\* thanks, affirmation or help table, or a query that mentions time or date
CannedPhrase(query) ==
    LET ql == strip(lower(query))
    IN  \/ \E k \in 1..Len(greetings) : greetings[k][1] = ql
        \/ \E k \in 1..Len(farewells) : farewells[k][1] = ql
        \/ \E k \in 1..Len(thanks) : thanks[k][1] = ql
        \/ \E k \in 1..Len(affirmations) : affirmations[k][1] = ql
        \/ \E k \in 1..Len(help_queries) : help_queries[k][1] = ql
        \/ contains(ql, kw_time)
        \/ contains(ql, kw_date)

IsCanned == [t \in QueryTexts |-> CannedPhrase(t)]

\* request i was answered by get_answer
Answered(i) == req[i].pc = "done" /\ req[i].status = 200

\* requests i and j ask for the same normalized query
SameKey(i, j) == strip(lower(req[i].query)) = strip(lower(req[j].query))

\* neither request had returned when the other arrived
Concurrent(i, j) == i \notin req[j].after /\ j \notin req[i].after

\* every provider call request i made succeeded
Succeeded(i) == req[i].outcome \in {"", "ok"}

\* C1. Single-flight: when two requests with the same normalized query run
\* get_answer concurrently on an empty cache and the provider succeeds, the
\* provider is invoked exactly once in total and both return the same
\* response.
C1_SingleFlight ==
    \A i \in Req, j \in Req :
        ( /\ i # j
          /\ Answered(i) /\ Answered(j)
          /\ SameKey(i, j) /\ Concurrent(i, j)
          /\ ~IsCanned[req[i].query]
          /\ \A k \in Req \ {i, j} : req[k].pc = "idle"
          /\ Succeeded(i) /\ Succeeded(j) )
        => /\ req[i].calls + req[j].calls = 1
           /\ req[i].resp = req[j].resp

\* C2. For a query that is no canned phrase, once one get_answer call for it
\* has completed, every later call with the same normalized query made
\* before the 300 s timeout has passed returns the same stored response and
\* invokes no provider, whichever user issues it.
C2_CachedUntilExpiry ==
    \A i \in Req, j \in Req :
        ( /\ Answered(i) /\ Answered(j)
          /\ j \in req[i].after
          /\ SameKey(i, j)
          /\ ~IsCanned[req[j].query]
          /\ req[i].began < req[j].ended + CACHE_TIMEOUT )
        => /\ req[i].resp = req[j].resp
           /\ req[i].calls = 0

\* C3. Failure non-pinning: if the provider call of the first get_answer for
\* a key fails, no cache entry is stored for the key, and the next call for
\* the key invokes the provider again instead of returning the failure text.
C3_FailureNotPinned ==
    \A j \in Req :
        ( /\ Answered(j)
          /\ req[j].after = {}
          /\ ~req[j].hit
          /\ Facts[req[j].query].kind = "none"
          /\ req[j].outcome = "raise" )
        => /\ (\A k \in Req \ {j} : req[k].pc = "idle")
                => Facts[req[j].query].key \notin DOMAIN cache
           /\ \A i \in Req :
                 ( /\ req[i].pc # "idle"
                   /\ req[i].after = {j}
                   /\ req[i].body = "json"
                   /\ SameKey(i, j) )
                 => ~req[i].hit /\ req[i].calls >= 1

\* texts a and b differ only in letter case and leading or trailing whitespace
CaseTrimEqual(a, b) ==
    LET x == strip(a)
        y == strip(b)
    IN  /\ Len(x) = Len(y)
        /\ \A k \in 1..Len(x) : LowerChar(x[k]) = LowerChar(y[k])

\* texts a and b differ only in letter case and in whitespace, the amount
\* of whitespace between words included
CaseSpaceEqual(a, b) == split(lower(a)) = split(lower(b))

\* request j computed a response and get_answer stored it
Stored(j) == Answered(j) /\ ~req[j].hit /\ req[j].outcome # "" /\ req[j].calls >= 1
                /\ Facts[req[j].query].kind = "none"

\* request i arrived after j had stored its response and before the entry's
\* timeout
Follows(i, j) ==
    /\ Stored(j)
    /\ req[i].pc # "idle" /\ req[i].body = "json"
    /\ j \in req[i].after
    /\ req[i].began < req[j].ended + CACHE_TIMEOUT

\* request i was answered from the cache with a response stored under its key
HitFor(i) ==
    /\ Answered(i) /\ req[i].hit /\ req[i].calls = 0
    /\ \E k \in Req : Stored(k) /\ SameKey(i, k) /\ req[i].resp = req[k].resp

\* C4 (as amended). Two queries that differ only in letter case or in
\* leading or trailing whitespace map to the same cache key, so that a
\* response cached for one is the cache hit for the other.
C4_CaseTrimShareKey ==
    \A i \in Req, j \in Req :
        (Follows(i, j) /\ CaseTrimEqual(req[i].text, req[j].text))
        => /\ Facts[req[i].query].key = Facts[req[j].query].key
           /\ HitFor(i)

\* C4 witness: a query was answered from the entry of another spelling
C4_Witness ==
    \E i \in Req, j \in Req :
        /\ Follows(i, j) /\ CaseTrimEqual(req[i].text, req[j].text)
        /\ req[i].text # req[j].text
        /\ lower(req[i].text) # lower(req[j].text)
        /\ req[i].query # req[j].query
        /\ HitFor(i)

\* C4 (as claimed). Two queries that differ only in letter case, leading or
\* trailing whitespace or the amount of internal whitespace map to the same
\* cache key, so that a response cached for one is the cache hit for the
\* other.
C4_CaseSpaceShareKey ==
    \A i \in Req, j \in Req :
        (Follows(i, j) /\ CaseSpaceEqual(req[i].text, req[j].text))
        => /\ Facts[req[i].query].key = Facts[req[j].query].key
           /\ HitFor(i)

Cleared(u) ==
    /\ \/ user_history[u].search_history # <<>>
       \/ user_history[u].gemini_history # <<>>
    /\ \/ user_history[u].search_history # <<>>
          /\ user_history'[u].search_history = <<>>
       \/ user_history[u].gemini_history # <<>>
          /\ user_history'[u].gemini_history = <<>>

\* C6. clear_history resets the user's search history and assistant
\* conversation history in one step, so that no state has one of them
\* cleared and the other not, and while nothing has been recorded since, the
\* related-history lookup yields no record for any query.
C6_ClearBoth ==
    /\ [][\A u \in Users :
             Cleared(u) => /\ user_history'[u].search_history = <<>>
                           /\ user_history'[u].gemini_history = <<>>]_vars
    /\ [](\A u \in Users :
             log[u] = NoHistory
             => /\ user_history[u] = NoHistory
                /\ \A t \in QueryTexts :
                      get_related_history(user_history[u], t) = <<>>)

\* C6 witness: one request of a user recorded a search, another one an
\* assistant turn, and both lists are empty again
C6_Witness ==
    \E i \in Req, k \in Req :
        /\ Answered(i) /\ ~req[i].hit
        /\ records_search(req[i].route, req[i].outcome)
        /\ Answered(k) /\ ~req[k].hit
        /\ req[k].route = "gemini" /\ req[k].outcome = "ok"
        /\ req[k].user = req[i].user
        /\ user_history[req[i].user] = NoHistory
        /\ log[req[i].user] = NoHistory

\* the text holds nothing but whitespace
Blank(text) == \A k \in 1..Len(text) : text[k] \in WhiteSpace

\* the step is the arrival of request i
Arrives(i) == req[i].pc = "idle" /\ req'[i].pc # "idle"

\* C7. An empty or whitespace-only query makes the answer operation fail
\* with the EmptyQuery error (status 400, "Query cannot be empty"), a hard
\* error and no response text, and it changes neither the cache nor any
\* history and invokes no provider.
C7_EmptyQueryRejected ==
    [][\A i \in Req :
          (Arrives(i) /\ req'[i].body = "json" /\ Blank(req'[i].text))
          => /\ req'[i].pc = "done"
             /\ req'[i].status = 400
             /\ req'[i].resp.kind = "error"
             /\ req'[i].resp.tag = "Query cannot be empty"
             /\ req'[i].calls = 0
             /\ UNCHANGED <<cache, memo, user_history, invocations, log>>]_vars

\* C7 witness: a whitespace-only query was rejected while the cache held an
\* entry
C7_Witness ==
    \E i \in Req :
        /\ req[i].pc = "done" /\ req[i].body = "json"
        /\ req[i].text # <<>> /\ Blank(req[i].text)
        /\ req[i].status = 400
        /\ cache # EmptyMap

\* C9. A canned conversational phrase is answered with its canned text
\* before any routing rule applies: no provider is invoked, nothing is
\* written to the cache and no history is touched.
C9_CannedShortCircuit ==
    [][\A i \in Req :
          (Arrives(i) /\ req'[i].body = "json" /\ ~Blank(req'[i].text)
             /\ IsCanned[req'[i].query])
          => /\ req'[i].pc = "done"
             /\ req'[i].status = 200
             /\ req'[i].resp.kind = "canned"
             /\ req'[i].resp = canned_answer(req'[i].query, clock)
             /\ ~req'[i].hit
             /\ req'[i].calls = 0 /\ req'[i].route = ""
             /\ UNCHANGED <<cache, memo, user_history, invocations, log>>]_vars

\* C9 witness: a canned phrase was answered while the cache and a history
\* held entries
C9_Witness ==
    \E i \in Req :
        /\ Answered(i) /\ IsCanned[req[i].query]
        /\ req[i].resp.kind = "canned"
        /\ req[i].calls = 0
        /\ cache # EmptyMap
        /\ \E u \in Users : user_history[u] # NoHistory

\* the query contains the word weather together with an arithmetic operator
\* or a math keyword, and has no assistant prefix
WeatherWithMath(query) ==
    LET ql == strip(lower(query))
    IN  /\ contains(ql, kw_weather)
        /\ \/ contains_any(ql, math_ops)
           \/ contains_any(ql, math_words)
           \/ contains_any(ql, math_terms)
        /\ ~startswith(ql, kw_dot)

IsWeatherWithMath == [t \in QueryTexts |-> WeatherWithMath(t)]

\* request i went through the rule cascade of get_answer
Routed(i) == req[i].pc \in {"provider", "done"} /\ req[i].route # ""

\* C8 (as amended). A query that contains "weather" together with an
\* arithmetic operator or math keyword, has no assistant prefix and is not
\* answered before the cascade, is routed to the MathSolve provider: the
\* math rule is tested before the weather rule.
C8_MathBeforeWeather ==
    \A i \in Req :
        (Routed(i) /\ IsWeatherWithMath[req[i].query])
        => /\ req[i].route = "wolfram"
           /\ req[i].pc = "done" /\ req[i].outcome # ""
                => req[i].resp.tag = provider_tag("wolfram", req[i].outcome)

\* C8 witness: such a query was answered by query_wolfram
C8_Witness ==
    \E i \in Req :
        /\ Answered(i) /\ IsWeatherWithMath[req[i].query]
        /\ ~IsCanned[req[i].query]
        /\ req[i].route = "wolfram"
        /\ req[i].resp.tag = "NAF Answer:"

\* C8 (as claimed). Such a query is routed to the Weather provider, not to
\* MathSolve.
C8_WeatherBeforeMath ==
    \A i \in Req :
        (Routed(i) /\ IsWeatherWithMath[req[i].query])
        => req[i].route = "weather"

\* the failure text names the subsystem: no other provider function fails
\* with the same text
NamesSubsystem(tag, rt) ==
    \A other \in Routes \ {rt} :
        \A out \in {"status", "raise"} : provider_tag(other, out) # tag

\* C10. get_answer never raises: whatever a provider does, the request gets
\* a normal response, and a provider failure becomes a response text that
\* names the failing subsystem; ask fails only for an empty query or a
\* malformed request.
C10_FailuresNamed ==
    \A i \in Req :
        req[i].pc = "done"
        => /\ req[i].status # 200
                => req[i].body # "json" \/ Blank(req[i].text)
           /\ req[i].status = 200 => truthy(req[i].resp)
           /\ ( /\ req[i].status = 200 /\ ~req[i].hit
                /\ req[i].route # ""
                /\ req[i].outcome \in {"status", "raise"} )
              => NamesSubsystem(req[i].resp.tag, req[i].route)

\* the step is the return of the provider call of request i
Returns(i) == req[i].pc = "provider" /\ req'[i].pc = "done"

\* C11. Every answer call that is no canned phrase and whose provider
\* succeeds appends exactly one record to the calling user's search history,
\* tagged with the source of the provider that handled it, on each of the
\* seven routes.
C11_EveryRouteRecorded ==
    [][\A i \in Req :
          (Returns(i) /\ req'[i].outcome = "ok" /\ ~IsCanned[req[i].query])
          => LET u   == req[i].user
                 old == log[u].search_history
                 new == log'[u].search_history
                 h   == user_history'[u].search_history
             IN  /\ Len(new) = Len(old) + 1
                 /\ SubSeq(new, 1, Len(old)) = old
                 /\ new[Len(new)].source = req[i].route
                 /\ h # <<>> /\ h[Len(h)] = new[Len(new)]]_vars

\* the queries the related-history lookup is asked for
Probes == {Q_weather, Q_weather_math, Q_define, Q_web, Q_hi}

\* the records of history h whose stored query shares a token with query,
\* oldest first
RelatedTo(h, query) ==
    SelectSeq(h.search_history,
              LAMBDA e : \E w \in Words[query] : w \in Words[e.query])

\* C12. get_related_history(user, q) returns records of that user's search
\* history only, and only records whose stored query shares a lower-cased
\* whitespace token with q; a record whose token set is disjoint from q's is
\* never returned.
C12_RelatedShareToken ==
    \A u \in Users, t \in Probes :
        LET r == get_related_history(user_history[u], t)
            h == user_history[u].search_history
        IN  \A k \in 1..Len(r) :
               /\ \E n \in 1..Len(h) : h[n] = r[k]
               /\ Words[t] \cap Words[r[k].query] # {}

\* C12 witness: a user's history holds a weather record and a dictionary
\* record; for another weather query the first is returned and the second
\* is not
C12_Witness ==
    \E u \in Users :
        LET h == user_history[u].search_history
            r == get_related_history(user_history[u], Q_weather_math)
        IN  /\ \E n \in 1..Len(h) : h[n].query = Q_weather
            /\ \E n \in 1..Len(h) : h[n].query = Facts[Q_define].arg
            /\ \E k \in 1..Len(r) : r[k].query = Q_weather
            /\ \A k \in 1..Len(r) : r[k].query # Facts[Q_define].arg

Wrote(j) == Answered(j) /\ ~req[j].hit /\ req[j].route # ""

\* request i called get_answer with a query that is no canned phrase
Asked(i) ==
    /\ req[i].pc # "idle" /\ req[i].body = "json" /\ ~Blank(req[i].text)
    /\ ~IsCanned[req[i].query]

\* C14. TTL expiry: a cache entry written by get_answer at time t is never
\* returned by a get_answer call made after t + 300 s: a response that comes
\* from the cache was written less than 300 s before the call, and a call
\* made when every entry of its key is older than 300 s recomputes the
\* response through the provider.
C14_ExpiredNotReturned ==
    \A i \in Req :
        Asked(i)
        => /\ req[i].hit
                => \E k \in req[i].after :
                      /\ Wrote(k) /\ SameKey(i, k)
                      /\ req[k].resp = req[i].resp
                      /\ req[i].began < req[k].ended + 300
           /\ (\A k \in req[i].after :
                  (Wrote(k) /\ SameKey(i, k))
                  => req[i].began > req[k].ended + 300)
                => /\ ~req[i].hit
                   /\ req[i].pc = "done" => req[i].calls >= 1

\* C14 witness: a query was asked again more than 300 s after its entry was
\* written and the provider computed a new response
C14_Witness ==
    \E i \in Req, j \in Req :
        /\ Wrote(j) /\ j \in req[i].after /\ SameKey(i, j)
        /\ req[i].began > req[j].ended + 300
        /\ Answered(i) /\ ~req[i].hit /\ req[i].calls = 1
        /\ req[i].resp # req[j].resp
        /\ Facts[req[j].query].key \in DOMAIN cache

\* the condition of the rule of each provider, WebSearch having none
RuleHolds(rt, query) ==
    LET ql == strip(lower(query))
    IN  IF rt = "gemini" THEN startswith(ql, kw_dot)
        ELSE IF rt = "wolfram"
             THEN \/ startswith_any(ql, math_verbs)
                  \/ contains_any(ql, math_ops)
                  \/ contains_any(ql, math_words)
                  \/ contains_any(ql, math_terms)
        ELSE IF rt = "weather" THEN contains(ql, kw_weather)
        ELSE IF rt = "news" THEN contains(ql, kw_news)
        ELSE IF rt = "dictionary" THEN startswith_any(ql, define_prefixes)
        ELSE IF rt = "wikipedia" THEN contains_any(ql, wiki_words)
        ELSE TRUE

RuleOrder ==
    <<"gemini", "wolfram", "weather", "news", "dictionary", "wikipedia", "duckduckgo">>

\* per query text, the rules whose condition holds, by their place in the
\* order, and the first of them
Matching == [t \in QueryTexts |-> {k \in 1..7 : RuleHolds(RuleOrder[k], t)}]

FirstRule == [t \in QueryTexts |-> RuleOrder[SetMin(Matching[t])]]

\* a yes/no question or a request for a brief answer: get_short_answer asks
\* the language model
ShortQuestion(query) ==
    LET ql == strip(lower(query))
    IN  /\ ~CannedPhrase(query)
        /\ \/ startswith_any(ql, yesno_prefixes) /\ contains(ql, kw_qmark)
           \/ contains_any(ql, brief_indicators)

IsShortQuestion == [t \in QueryTexts |-> ShortQuestion(t)]

\* the request asks get_answer for a non-empty query
Called(i) == req[i].pc # "idle" /\ req[i].body = "json" /\ ~Blank(req[i].text)

\* C15 (as amended). For every non-empty query get_answer takes exactly
\* one handling path: the canned answer, the short answer of the language
\* model for a yes/no question or a brief request, or exactly one of the
\* seven providers, the first whose rule matches, WebSearch exactly when no
\* other rule matches; a short answer that comes back empty sends the
\* request on to that one provider.
C15_OnePath ==
    \A i \in Req :
        Called(i)
        => LET q == req[i].query
           IN  \/ /\ IsCanned[q]
                  /\ req[i].pc = "done" /\ req[i].route = "" /\ req[i].calls = 0
               \/ /\ ~IsCanned[q] /\ IsShortQuestion[q]
                  /\ req[i].route = "" /\ req[i].calls = 1
                  /\ \/ req[i].pc = "short"
                     \/ req[i].pc = "done" /\ req[i].outcome # "empty"
               \/ /\ ~IsCanned[q]
                  /\ req[i].pc \in {"provider", "done"}
                  /\ req[i].route = FirstRule[q]
                  /\ (req[i].route = "duckduckgo") <=> (Matching[q] = {7})
                  /\ req[i].calls = IF IsShortQuestion[q] THEN 2 ELSE 1

\* C15 witness: a query that matches the weather rule and the news rule was
\* answered by the weather provider alone
C15_Witness ==
    \E i \in Req :
        /\ Answered(i) /\ ~IsCanned[req[i].query]
        /\ {3, 4} \subseteq Matching[req[i].query]
        /\ req[i].route = "weather" /\ req[i].calls = 1
        /\ req[i].resp.tag = provider_tag("weather", req[i].outcome)

\* C15 (as claimed). For every non-empty query get_answer takes exactly one
\* handling path: the canned answer or exactly one of the seven providers.
C15_CannedOrProvider ==
    \A i \in Req :
        (Called(i) /\ req[i].pc = "done")
        => \/ /\ IsCanned[req[i].query]
              /\ req[i].route = "" /\ req[i].calls = 0
           \/ /\ ~IsCanned[req[i].query]
              /\ req[i].route \in Routes /\ req[i].calls = 1

\* C16. Only AICompletion requests read or append to a user's
\* gemini_history: a step of a request on any other path, the yes/no, brief
\* and summary calls of the language model included, leaves every user's
\* gemini_history unchanged, and such a request sends no conversation
\* context.
C16_OnlyAssistantTurns ==
    /\ [][\A i \in Req :
             (req'[i] # req[i] /\ ~(Returns(i) /\ req[i].route = "gemini"))
             => \A u \in Users :
                   user_history'[u].gemini_history = user_history[u].gemini_history]_vars
    /\ [](\A i \in Req : req[i].route # "gemini" => req[i].context = <<>>)

\* C16 witness: after an assistant turn of the user was stored, a yes/no or
\* brief question of the same user was answered by the language model
\* without context and without a new turn
C16_Witness ==
    \E i \in Req, k \in Req :
        /\ Answered(i) /\ req[i].route = "gemini" /\ req[i].outcome = "ok"
        /\ Answered(k) /\ IsShortQuestion[req[k].query] /\ req[k].route = ""
        /\ req[k].outcome = "ok" /\ req[k].calls = 1
        /\ req[k].user = req[i].user /\ i \in req[k].after
        /\ req[k].context = <<>>
        /\ Len(user_history[req[k].user].gemini_history) = 1

Enters(i) == req[i].route = "" /\ req'[i].route # ""

\* request i got a response that was computed for it, not a canned text and
\* not a cache entry
Fresh(i) == Answered(i) /\ ~req[i].hit /\ ~IsCanned[req[i].query]

\* C18 (as amended). A response computed by the rule cascade starts with
\* the preamble exactly when the calling user has at least one related
\* record when the cascade is entered and the route is not AICompletion; an
\* AICompletion response never carries it, nor does a short answer of the
\* language model; building the preamble invokes no provider.
C18_PreambleOnCascade ==
    /\ [][\A i \in Req :
             Enters(i)
             => /\ (req'[i].pre # <<>>)
                   <=> (RelatedTo(user_history[req'[i].user], req'[i].query) # <<>>)
                /\ invocations' - invocations = req'[i].calls - req[i].calls
                /\ invocations' - invocations \in {0, 1}]_vars
    /\ [](\A i \in Req :
             Fresh(i)
             => /\ req[i].route \notin {"", "gemini"}
                     => req[i].resp.pre = req[i].pre
                /\ req[i].route \in {"", "gemini"} => req[i].resp.pre = <<>>)

\* C18 witness: a user with a weather record asked a math query that
\* mentions the weather and the response carries the record as preamble
C18_Witness ==
    \E i \in Req, k \in Req :
        /\ Fresh(k) /\ req[k].route = "weather" /\ req[k].outcome = "ok"
        /\ Fresh(i) /\ k \in req[i].after /\ req[i].user = req[k].user
        /\ req[i].route = "wolfram"
        /\ Len(req[i].resp.pre) = 1
        /\ req[i].resp.pre[1].query = Facts[req[k].query].arg
        /\ req[i].calls = 1

\* C18 (as claimed). A freshly computed response starts with the preamble
\* exactly when the calling user has at least one related record at request
\* time and the route is not AICompletion.
C18_PreambleOnFresh ==
    /\ [][\A i \in Req :
             (Arrives(i) /\ Called(i)' /\ ~IsCanned[req'[i].query] /\ ~req'[i].hit)
             => (req'[i].pre # <<>>)
                <=> (RelatedTo(user_history[req'[i].user], req'[i].query) # <<>>)]_vars
    /\ [](\A i \in Req :
             Fresh(i)
             => (req[i].resp.pre # <<>>)
                <=> (req[i].pre # <<>> /\ req[i].route # "gemini"))

\* C19. Under any interleaving of concurrent add_to_search_history,
\* add_to_gemini_history and clear_history steps for one user, no reader
\* finds a list longer than its cap, and once the calls have returned no
\* appended record is missing other than by the eviction of the oldest or by
\* a clear that came after the append.
C19_AppendsSynchronized ==
    \A u \in Users :
        /\ Len(user_history[u].search_history) <= 50
        /\ Len(user_history[u].gemini_history) <= 7
        /\ (\A t \in Thr : thread[t].pc = "idle")
              => /\ user_history[u].search_history =
                       last(log[u].search_history, 50)
                 /\ user_history[u].gemini_history =
                       last(log[u].gemini_history, 7)

\* C20. Per-user confidentiality of history: the response returned to a
\* user carries no query or response text of another user's history; every
\* item of its preamble is a record of the user's own search history.
C20_OwnHistoryOnly ==
    \A i \in Req :
        Answered(i)
        => \A k \in 1..Len(req[i].resp.pre) :
              \E n \in 1..Len(log[req[i].user].search_history) :
                 LET record == log[req[i].user].search_history[n]
                     item   == req[i].resp.pre[k]
                 IN  /\ item.query = record.query
                     /\ item.response = summarize_response(record.response)

=============================================================================
